---- MODULE Spec2Model ----
(***************************************************************************)
(* Model of Tools/actions_pr_changelog_to_discord.py: the entry diff       *)
(* (diff_entries) and the chunked, rate-limited webhook delivery           *)
(* (send_message_lines / send_discord_webhook).                            *)
(*                                                                         *)
(* Strings are kept run-length encoded: a string is a sequence of runs     *)
(* [c |-> character, n |-> repetitions], n > 0, adjacent runs of different *)
(* characters.  Two strings are equal iff their encodings are equal, and   *)
(* len, slicing, rstrip and concatenation are computed on the encoding, so *)
(* the real limit of 2000 characters is used unscaled.                     *)
(***************************************************************************)
EXTENDS Integers, Sequences, FiniteSets, TLC

\* ------------------------------------------------------------------ bounds
\* Longest entry list handed to diff_entries.
MaxEntries == 3
\* Longest line list handed to send_message_lines.
MaxLines == 3
\* Most responses per chunk that the retry loop answers by retrying without
\* an attempt test (429, and statuses raise_for_status lets through).
MaxUncapped == 2
\* Longest entry list handed to changelog_entries_to_message_lines.
MaxFormatEntries == 2

\* ------------------------------------------------------- program constants
DISCORD_SPLIT_LIMIT == 2000
DEFAULT_DISCORD_MESSAGE_DELAY_SECONDS == 2
\* the 100 of line[: DISCORD_SPLIT_LIMIT - 100]
TruncReserve == 100
\* the 6 of `attempt < 6`
MaxAttempts == 6
\* the 30 of min(2 ** attempt, 30)
BackoffCap == 30
\* the "1" default of resp.headers.get("Retry-After", "1")
DefaultRetryAfter == 1

None == "None"

\* ------------------------------------------------------------------ strings
Run(ch, k) == [c |-> ch, n |-> k]

\* len(s)
RECURSIVE StrLen(_)
StrLen(s) == IF s = <<>> THEN 0 ELSE Head(s).n + StrLen(Tail(s))

\* s[:k] for k >= 0
RECURSIVE StrTake(_, _)
StrTake(s, k) ==
    IF k <= 0 \/ s = <<>> THEN <<>>
    ELSE IF Head(s).n <= k
         THEN <<Head(s)>> \o StrTake(Tail(s), k - Head(s).n)
         ELSE <<Run(Head(s).c, k)>>

\* the characters str.rstrip() removes, among those used here
IsSpace(ch) == ch \in {" ", "\n"}

\* s.rstrip()
RECURSIVE StrRStrip(_)
StrRStrip(s) ==
    IF s = <<>> THEN <<>>
    ELSE IF IsSpace(s[Len(s)].c) THEN StrRStrip(SubSeq(s, 1, Len(s) - 1))
    ELSE s

\* s + t
StrCat(s, t) ==
    IF s = <<>> THEN t
    ELSE IF t = <<>> THEN s
    ELSE IF s[Len(s)].c = t[1].c
         THEN SubSeq(s, 1, Len(s) - 1)
              \o <<Run(t[1].c, s[Len(s)].n + t[1].n)>> \o Tail(t)
         ELSE s \o t

\* "".join(lines)
RECURSIVE StrJoin(_)
StrJoin(ls) == IF ls = <<>> THEN <<>> ELSE StrCat(Head(ls), StrJoin(Tail(ls)))

\* " [...]"
Ellipsis == <<Run(" ", 1), Run("[", 1), Run(".", 3), Run("]", 1)>>

\* ------------------------------------------------------------- diff_entries
Ids == {"1", "2"}
Authors == {"A", "B"}
\* A changelog entry: a dict; `author` stands for every key other than id.
\* Entries with an id in two versions each, and one entry without an id.
Entries == [id : Ids, author : Authors] \cup [id : {None}, author : {"A"}]

RECURSIVE SeqsUpTo(_, _)
SeqsUpTo(S, k) ==
    IF k = 0 THEN {<<>>}
    ELSE LET shorter == SeqsUpTo(S, k - 1)
         IN shorter \cup {Append(q, x) : q \in {r \in shorter : Len(r) = k - 1}, x \in S}

\* [e.get("id") for e in entries if e.get("id") is not None]
RECURSIVE IdsOf(_)
IdsOf(entries) ==
    IF entries = <<>> THEN <<>>
    ELSE IF Head(entries).id # None
         THEN <<Head(entries).id>> \o IdsOf(Tail(entries))
         ELSE IdsOf(Tail(entries))

\* set(ids)
IdSet(ids) == {ids[k] : k \in DOMAIN ids}

\* Counter(ids).get(x, 0)
Count(ids, x) == Cardinality({k \in DOMAIN ids : ids[k] = x})

\* old_unique_by_id: the entry of every id that occurs once in old_entries
\* (a later assignment to the same key would overwrite an earlier one)
OldUniqueById(old) ==
    LET old_counts(x) == Count(IdsOf(old), x)
        keys == {x \in IdSet(IdsOf(old)) : old_counts(x) = 1}
        last(x) == CHOOSE k \in DOMAIN old :
                       /\ old[k].id = x
                       /\ \A j \in DOMAIN old : old[j].id = x => j <= k
    IN [x \in keys |-> old[last(x)]]

\* the `added` loop without `if entry_id is None: continue`
AddedWithIdless(old, new) ==
    LET old_id_set == IdSet(IdsOf(old))
    IN SelectSeq(new, LAMBDA entry : entry.id \notin old_id_set)

\* the `added` loop without the test of old_id_set
AddedNoOldTest(old, new) ==
    SelectSeq(new, LAMBDA entry : entry.id # None)

Added(old, new) ==
    LET old_id_set == IdSet(IdsOf(old))
    IN SelectSeq(new, LAMBDA entry : entry.id # None /\ entry.id \notin old_id_set)

\* the `modified` loop, without the test of new_counts
ModifiedNoNewCount(old, new) ==
    LET old_ids == IdsOf(old)
        old_unique_by_id == OldUniqueById(old)
    IN SelectSeq(new, LAMBDA entry :
           /\ entry.id # None
           /\ ~(Count(old_ids, entry.id) # 1)
           /\ entry.id \in DOMAIN old_unique_by_id
           /\ old_unique_by_id[entry.id] # entry)

\* the `modified` loop, without the comparison old_entry != entry
ModifiedNoCompare(old, new) ==
    LET old_ids == IdsOf(old)
        new_ids == IdsOf(new)
        old_unique_by_id == OldUniqueById(old)
    IN SelectSeq(new, LAMBDA entry :
           /\ entry.id # None
           /\ ~(Count(old_ids, entry.id) # 1 \/ Count(new_ids, entry.id) # 1)
           /\ entry.id \in DOMAIN old_unique_by_id)

Modified(old, new) ==
    LET old_ids == IdsOf(old)
        new_ids == IdsOf(new)
        old_unique_by_id == OldUniqueById(old)
    IN SelectSeq(new, LAMBDA entry :
           /\ entry.id # None
           /\ ~(Count(old_ids, entry.id) # 1 \/ Count(new_ids, entry.id) # 1)
           /\ entry.id \in DOMAIN old_unique_by_id
           /\ old_unique_by_id[entry.id] # entry)

\* the first entry of every id
RECURSIVE FirstPerId(_)
FirstPerId(entries) ==
    IF entries = <<>> THEN <<>>
    ELSE <<Head(entries)>>
         \o FirstPerId(SelectSeq(Tail(entries), LAMBDA e : e.id # Head(entries).id))

\* `removed` keyed by id: one entry for each vanished id
RemovedOnePerId(old, new) ==
    LET new_id_set == IdSet(IdsOf(new))
    IN FirstPerId(SelectSeq(old, LAMBDA entry :
           entry.id # None /\ entry.id \notin new_id_set))

\* `removed` without the test of new_id_set
RemovedNoNewTest(old, new) ==
    SelectSeq(old, LAMBDA entry : entry.id # None)

\* the `removed` loop
Removed(old, new) ==
    LET new_id_set == IdSet(IdsOf(new))
    IN SelectSeq(old, LAMBDA entry : entry.id # None /\ entry.id \notin new_id_set)

diff_entries(old, new) ==
    [added |-> Added(old, new),
     modified |-> Modified(old, new),
     removed |-> Removed(old, new)]

\* ------------------------------------------------------ the webhook's answers
Success == {200, 204}
Transient == {500, 502, 503, 504}
RateLimited == 429
\* statuses outside the three groups: one below 400, one client error
OtherStatuses == {202, 404}
Statuses == Success \cup {RateLimited} \cup Transient \cup OtherStatuses

\* A response: its status, the retry_after of its JSON body and its Retry-After
\* header, each <<>> when absent and <<seconds>> when present.  The 429s: a
\* negative body value, a body value beside a header, a header alone, neither.
Responses ==
    [status : Statuses \ {RateLimited}, body : {<<>>}, header : {<<>>}]
    \cup { [status |-> RateLimited, body |-> <<0 - 1>>, header |-> <<>>],
           [status |-> RateLimited, body |-> <<3>>, header |-> <<5>>],
           [status |-> RateLimited, body |-> <<>>, header |-> <<5>>],
           [status |-> RateLimited, body |-> <<>>, header |-> <<>>] }
NoResponse == [status |-> 0, body |-> <<>>, header |-> <<>>]

Max(a, b) == IF a >= b THEN a ELSE b
Min(a, b) == IF a <= b THEN a ELSE b

\* retry_after: the body's retry_after, else the Retry-After header, else "1"
RetryAfter(r) ==
    IF r.body # <<>> THEN r.body[1]
    ELSE IF r.header # <<>> THEN r.header[1]
    ELSE DefaultRetryAfter

\* the sleep after a 429 without the floor
RateLimitSleepNoFloor(r) == RetryAfter(r)

\* max(retry_after, 0.0), the argument of time.sleep after a 429
RateLimitSleep(r) == Max(RetryAfter(r), 0)

\* the backoff without its cap: 2 ** attempt
BackoffNoCap(att) == 2 ^ att

\* min(2 ** attempt, 30)
Backoff(att) == Min(2 ^ att, BackoffCap)

\* any 2xx taken for a success
IsSuccessAny2xx(status) == 200 <= status /\ status < 300

\* resp.status_code in (200, 204)
IsSuccess(status) == status \in Success

\* the attempt test off by one: attempt <= 6
RetriesTransientOffByOne(status, att) == status \in Transient /\ att <= MaxAttempts

\* resp.status_code in (500, 502, 503, 504) and attempt < 6
RetriesTransient(status, att) == status \in Transient /\ att < MaxAttempts

\* requests' Response.raise_for_status(): raises HTTPError for 4xx and 5xx only
RaisesForStatus(status) == 400 <= status /\ status < 600

\* -------------------------------------------------------- send_message_lines
\* the truncation without the reserve: line[: DISCORD_SPLIT_LIMIT]
TruncateNoReserve(line) ==
    IF StrLen(line) > DISCORD_SPLIT_LIMIT
    THEN StrCat(StrRStrip(StrTake(line, DISCORD_SPLIT_LIMIT)), Ellipsis)
    ELSE line

\* line[: DISCORD_SPLIT_LIMIT - 100].rstrip() + " [...]" when len(line) > limit
Truncate(line) ==
    IF StrLen(line) > DISCORD_SPLIT_LIMIT
    THEN StrCat(StrRStrip(StrTake(line, DISCORD_SPLIT_LIMIT - TruncReserve)), Ellipsis)
    ELSE line

\* the chunk flushed already when it would be exactly full
OverflowsAtLimit(new_chunk_length) == new_chunk_length >= DISCORD_SPLIT_LIMIT

\* new_chunk_length > DISCORD_SPLIT_LIMIT
Overflows(new_chunk_length) == new_chunk_length > DISCORD_SPLIT_LIMIT

\* the new chunk started empty: chunk_lines = []
NewChunkEmpty(line) == <<>>

\* chunk_lines = [line]
NewChunk(line) == <<line>>

\* ------------------------------------------------------------ more of strings
\* a literal, character by character; a character outside ASCII is named by
\* its code point (as is the backquote, U+0060)
Text(chars) == StrJoin([k \in DOMAIN chars |-> <<Run(chars[k], 1)>>])

\* s[k:] for k >= 0
RECURSIVE StrDrop(_, _)
StrDrop(s, k) ==
    IF k <= 0 \/ s = <<>> THEN s
    ELSE IF Head(s).n <= k THEN StrDrop(Tail(s), k - Head(s).n)
    ELSE <<Run(Head(s).c, Head(s).n - k)>> \o Tail(s)

\* s.lstrip()
RECURSIVE StrLStrip(_)
StrLStrip(s) ==
    IF s = <<>> THEN <<>>
    ELSE IF IsSpace(Head(s).c) THEN StrLStrip(Tail(s))
    ELSE s

\* s.strip()
StrStrip(s) == StrRStrip(StrLStrip(s))

\* the decimal digits
Digits == <<"0", "1", "2", "3", "4", "5", "6", "7", "8", "9">>

\* s.rstrip(ch) for one character ch
RECURSIVE StrRStripChar(_, _)
StrRStripChar(s, ch) ==
    IF s = <<>> THEN <<>>
    ELSE IF s[Len(s)].c = ch THEN StrRStripChar(SubSeq(s, 1, Len(s) - 1), ch)
    ELSE s

\* int(s) for a string s of decimal digits
DigitValue(ch) == (CHOOSE d \in 1..10 : Digits[d] = ch) - 1
IsDigits(s) == s # <<>> /\ \A k \in DOMAIN s : \E d \in 1..10 : Digits[d] = s[k].c
RECURSIVE ParseIntFrom(_, _)
ParseIntFrom(s, acc) ==
    IF s = <<>> THEN acc
    ELSE ParseIntFrom(StrDrop(s, 1), 10 * acc + DigitValue(Head(s).c))
ParseInt(s) == ParseIntFrom(s, 0)

\* s.startswith(p), s.endswith(p)
StartsWith(s, p) == StrTake(s, StrLen(p)) = p
EndsWith(s, p) == StrLen(p) <= StrLen(s) /\ StrDrop(s, StrLen(s) - StrLen(p)) = p

\* s.rsplit("/", 1)[-1]
AfterLastSlash(s) ==
    LET slashes == {k \in DOMAIN s : s[k].c = "/"}
    IN IF slashes = {} THEN s
       ELSE SubSeq(s, (CHOOSE k \in slashes : \A j \in slashes : j <= k) + 1, Len(s))

\* str(n) for an int n >= 0
RECURSIVE IntToStr(_)
IntToStr(n) ==
    IF n < 10 THEN Text(<<Digits[n + 1]>>)
    ELSE StrCat(IntToStr(n \div 10), Text(<<Digits[(n % 10) + 1]>>))

\* the concatenation of a sequence of sequences
RECURSIVE ConcatAll(_)
ConcatAll(ss) == IF ss = <<>> THEN <<>> ELSE Head(ss) \o ConcatAll(Tail(ss))

\* ----------------------------------------------------------------- literals
Unknown ==
    Text(<<"U+041D", "U+0435", "U+0432", "U+0456", "U+0434", "U+043E", "U+043C",
           "U+043E">>)

TitleHead ==
    Text(<<"U+1F191", " ", "*", "*", "U+041E", "U+043D", "U+043E", "U+0432", "U+043B",
           "U+0435", "U+043D", "U+043D", "U+044F", " ", "U+0441", "U+043F", "U+0438",
           "U+0441", "U+043A", "U+0443", " ", "U+0437", "U+043C", "U+0456", "U+043D",
           " ", "U+2014", " ", "P", "R", " ", "[", "#">>)

TitleMid ==
    Text(<<"]", "(">>)

TitleTail ==
    Text(<<")", " ", "U+0437", "U+043C", "U+0435", "U+0440", "U+0434", "U+0436",
           "U+0435", "U+043D", "U+043E", "*", "*", "\n">>)

FileHead ==
    Text(<<"U+1F4C4", " ", "*", "*">>)

FileMid ==
    Text(<<"*", "*", " ", "(", "U+0060">>)

FileTail ==
    Text(<<"U+0060", ")", "\n">>)

SummaryHead ==
    Text(<<"U+041F", "U+0456", "U+0434", "U+0441", "U+0443", "U+043C", "U+043E",
           "U+043A", ":", " ">>)

SummarySep ==
    Text(<<" ", "U+2022", " ">>)

RemovedHead ==
    Text(<<"U+26A0", "U+FE0F", " ", "U+0417", "U+0456", " ", "U+0441", "U+043F",
           "U+0438", "U+0441", "U+043A", "U+0443", " ", "U+0437", "U+043C", "U+0456",
           "U+043D", " ", "U+043F", "U+0440", "U+0438", "U+0431", "U+0440", "U+0430",
           "U+043D", "U+043E", " ">>)

RemovedTail ==
    Text(<<" ", "U+0437", "U+0430", "U+043F", "U+0438", "U+0441", "(", "U+0456",
           "U+0432", ")", " ", "U+0443", " ", "U+0446", "U+044C", "U+043E", "U+043C",
           "U+0443", " ", "U+0444", "U+0430", "U+0439", "U+043B", "U+0456", ".", "\n">>)

Bullet ==
    Text(<<"U+2022", " ">>)

UnknownEmoji ==
    Text(<<"U+2753">>)

GithubUrl ==
    Text(<<"h", "t", "t", "p", "s", ":", "/", "/", "g", "i", "t", "h", "u", "b", ".",
           "c", "o", "m", "/">>)

PullPath ==
    Text(<<"/", "p", "u", "l", "l", "/">>)

DEFAULT_CHANGELOG_DIR ==
    Text(<<"R", "e", "s", "o", "u", "r", "c", "e", "s", "/", "C", "h", "a", "n", "g",
           "e", "l", "o", "g">>)

DEFAULT_CHANGELOG_EXT ==
    Text(<<".", "y", "m", "l">>)

TypeFix ==
    Text(<<"F", "i", "x">>)

EmojiFix ==
    Text(<<"U+1F41B">>)

LabelFix ==
    Text(<<"U+0412", "U+0438", "U+043F", "U+0440", "U+0430", "U+0432", "U+043B",
           "U+0435", "U+043D", "U+043E">>)

TypeAdd ==
    Text(<<"A", "d", "d">>)

EmojiAdd ==
    Text(<<"U+1F195">>)

LabelAdd ==
    Text(<<"U+0414", "U+043E", "U+0434", "U+0430", "U+043D", "U+043E">>)

TypeRemove ==
    Text(<<"R", "e", "m", "o", "v", "e">>)

EmojiRemove ==
    Text(<<"U+274C">>)

LabelRemove ==
    Text(<<"U+0412", "U+0438", "U+0434", "U+0430", "U+043B", "U+0435", "U+043D",
           "U+043E">>)

TypeTweak ==
    Text(<<"T", "w", "e", "a", "k">>)

EmojiTweak ==
    Text(<<"U+2692", "U+FE0F">>)

LabelTweak ==
    Text(<<"U+0417", "U+043C", "U+0456", "U+043D", "U+0435", "U+043D", "U+043E">>)

\* --------------------------------------------------------- Summary Formatter
\* In an entry or a change a string value that is missing, None or "" is the
\* empty string <<>>: the code reads each of them through `x or default`.
\* An entry: [isdict, id, author, changes |-> [islist, items]];
\* a change: [isdict, type, message].
TYPES_TO_EMOJI ==
    (TypeFix :> EmojiFix) @@ (TypeAdd :> EmojiAdd)
    @@ (TypeRemove :> EmojiRemove) @@ (TypeTweak :> EmojiTweak)
TYPES_TO_UA ==
    (TypeFix :> LabelFix) @@ (TypeAdd :> LabelAdd)
    @@ (TypeRemove :> LabelRemove) @@ (TypeTweak :> LabelTweak)

\* d.get(key, default)
DictGet(d, key, default) == IF key \in DOMAIN d THEN d[key] ELSE default

\* the dict items of the `changes` list of every entry that has such a list
ChangesOf(entry) ==
    IF entry.changes.islist
    THEN SelectSeq(entry.changes.items, LAMBDA change : change.isdict)
    ELSE <<>>

\* count_change_types(entries).get(change_type, 0)
CountChangeType(entries, change_type) ==
    LET changes == ConcatAll([k \in DOMAIN entries |-> ChangesOf(entries[k])])
    IN Cardinality({k \in DOMAIN changes :
                       changes[k].type # <<>> /\ changes[k].type = change_type})

\* SummarySep.join(parts)
RECURSIVE JoinSummary(_)
JoinSummary(parts) ==
    IF parts = <<>> THEN <<>>
    ELSE IF Len(parts) = 1 THEN parts[1]
    ELSE StrCat(parts[1], StrCat(SummarySep, JoinSummary(Tail(parts))))

render_change_type_summary(entries) ==
    LET part(change_type) ==
            LET count == CountChangeType(entries, change_type)
            IN IF count = 0 THEN <<>>
               ELSE <<StrCat(DictGet(TYPES_TO_EMOJI, change_type, UnknownEmoji),
                             StrCat(Text(<<" ">>), IntToStr(count)))>>
    IN JoinSummary(part(TypeAdd) \o part(TypeFix) \o part(TypeRemove) \o part(TypeTweak))

\* str(entry.get("author") or Unknown)
AuthorOf(entry) == IF entry.author # <<>> THEN entry.author ELSE Unknown

\* the keys of by_author, in the order of their first entry
RECURSIVE AuthorsInOrder(_)
AuthorsInOrder(entries) ==
    IF entries = <<>> THEN <<>>
    ELSE <<AuthorOf(Head(entries))>>
         \o AuthorsInOrder(SelectSeq(Tail(entries),
                LAMBDA e : AuthorOf(e) # AuthorOf(Head(entries))))

\* the message of a change as it is put on its line: stripped, and cut when
\* it is longer than the limit
MessageOf(change) ==
    LET message == StrStrip(change.message)
    IN IF StrLen(message) > DISCORD_SPLIT_LIMIT
       THEN StrCat(StrRStrip(StrTake(message, DISCORD_SPLIT_LIMIT - TruncReserve)),
                   Ellipsis)
       ELSE message

\* the line of one change: f"{Bullet}{emoji} {label}: {message}\n", none when the
\* stripped message is empty
ChangeLine(change) ==
    LET change_type == change.type
        emoji == DictGet(TYPES_TO_EMOJI, change_type, UnknownEmoji)
        label == DictGet(TYPES_TO_UA, change_type,
                         IF change_type # <<>> THEN change_type ELSE Unknown)
    IN IF StrStrip(change.message) = <<>> THEN <<>>
       ELSE <<StrJoin(<<Bullet, emoji, Text(<<" ">>), label, Text(<<":", " ">>),
                        MessageOf(change), Text(<<"\n">>)>>)>>

\* the lines of one entry
EntryLines(entry) ==
    LET changes == ChangesOf(entry)
    IN ConcatAll([k \in DOMAIN changes |-> ChangeLine(changes[k])])

changelog_entries_to_message_lines(entries) ==
    LET authors == AuthorsInOrder(entries)
        group(author) == SelectSeq(entries, LAMBDA e : AuthorOf(e) = author)
        lines_of(k) ==
            (IF k = 1 THEN <<>> ELSE <<Text(<<"\n">>)>>)
            \o <<StrJoin(<<Text(<<"*", "*">>), authors[k], Text(<<"*", "*", ":", "\n">>)>>)>>
            \o ConcatAll([j \in DOMAIN group(authors[k]) |-> EntryLines(group(authors[k])[j])])
    IN ConcatAll([k \in DOMAIN authors |-> lines_of(k)])

\* the lines of one ChangelogFileDelta in build_message_lines
DeltaLines(delta) ==
    LET entries_to_report == delta.added \o delta.modified
        file_name == AfterLastSlash(delta.path)
        summary == render_change_type_summary(entries_to_report)
    IN <<StrJoin(<<FileHead, file_name, FileMid, delta.path, FileTail>>)>>
       \o (IF summary # <<>>
           THEN <<StrJoin(<<SummaryHead, summary, Text(<<"\n">>)>>)>>
           ELSE <<>>)
       \o changelog_entries_to_message_lines(entries_to_report)
       \o (IF delta.removed # <<>>
           THEN <<StrJoin(<<RemovedHead, IntToStr(Len(delta.removed)), RemovedTail>>)>>
           ELSE <<>>)
       \o <<Text(<<"\n">>)>>

build_message_lines(pr_number, pr_title, pr_url, deltas) ==
    <<StrJoin(<<TitleHead, IntToStr(pr_number), TitleMid, pr_url, TitleTail>>)>>
    \o (IF pr_title # <<>> THEN <<StrCat(pr_title, Text(<<"\n">>))>> ELSE <<>>)
    \o <<Text(<<"\n">>)>>
    \o ConcatAll([k \in DOMAIN deltas |-> DeltaLines(deltas[k])])

\* the lines the input is drawn from: lengths 1, 1000, 2000 and 2500 (the last
\* with blanks across character 1900, where the truncation cuts)
LineUniverse ==
    { <<Run("\n", 1)>>,
      <<Run("a", 999), Run("\n", 1)>>,
      <<Run("a", 1999), Run("\n", 1)>>,
      <<Run("a", 1890), Run(" ", 20), Run("a", 589), Run("\n", 1)>> }
Delays == {0 - 1, 2}

NoSleep == [kind |-> "none", secs |-> 0]

VARIABLES
    \* diff_entries: its arguments, its position and its results
    old_entries, new_entries, diff_pc, added, modified, removed,
    \* send_message_lines: arguments, loop index and locals
    message_lines, message_delay_seconds, pc, i, chunk_lines, chunk_length,
    \* send_discord_webhook: where it was called from, arguments and locals
    call_site, lines, content, attempt, resp,
    \* history of the current call: POSTs made, 429 / transient / other
    \* answers received, and the sleeps taken after a 429 and as backoff
    posts, n429, ntransient, nother, rate_sleeps, backoff_sleeps,
    \* history of the run: the last sleep, the chunks whose call returned, the
    \* lines and status of the previous POST, the inter-message delays taken
    slept, delivered, prev_post, delays,
    \* changelog_entries_to_message_lines: its argument, position and result
    fmt_entries, fmt_pc, fmt_lines,
    \* main: its position, the environment, the pull request, the changelog
    \* files of the pull request, the deltas collected, and the history of the
    \* per-file loop: for each file whether its two revisions were fetched and
    \* parsed, and whether its delta was non-empty
    main_pc, env, pr_number, pr_title, pr_url, changelog_files, deltas, file_hist

diff_vars == <<old_entries, new_entries, diff_pc, added, modified, removed>>
loop_vars == <<message_lines, message_delay_seconds, i, chunk_lines, chunk_length>>
call_vars == <<call_site, lines, content, attempt, resp>>
call_hist == <<posts, n429, ntransient, nother, rate_sleeps, backoff_sleeps>>
run_hist == <<slept, delivered, prev_post, delays>>
fmt_vars == <<fmt_entries, fmt_pc, fmt_lines>>
main_vars == <<main_pc, env, pr_number, pr_title, pr_url, changelog_files, deltas, file_hist>>
vars == <<diff_vars, pc, loop_vars, call_vars, call_hist, run_hist, fmt_vars, main_vars>>

NoPost == [lines |-> <<>>, content |-> <<>>, status |-> 0]

DiffIdle ==
    /\ old_entries = <<>> /\ new_entries = <<>> /\ diff_pc = "idle"
    /\ added = <<>> /\ modified = <<>> /\ removed = <<>>

FormatIdle == fmt_entries = <<>> /\ fmt_pc = "idle" /\ fmt_lines = <<>>

NoEnv ==
    [webhook |-> FALSE, token |-> FALSE, repository |-> <<>>, pr_number |-> <<>>,
     delay |-> 0]

MainIdle ==
    /\ main_pc = "idle" /\ env = NoEnv
    /\ pr_number = 0 /\ pr_title = <<>> /\ pr_url = <<>>
    /\ changelog_files = <<>> /\ deltas = <<>> /\ file_hist = <<>>

SendLocals ==
    /\ i = 1 /\ chunk_lines = <<>> /\ chunk_length = 0
    /\ call_site = "none" /\ lines = <<>> /\ content = <<>> /\ attempt = 0
    /\ resp = NoResponse
    /\ posts = 0 /\ n429 = 0 /\ ntransient = 0 /\ nother = 0
    /\ rate_sleeps = 0 /\ backoff_sleeps = 0
    /\ slept = NoSleep /\ delivered = <<>> /\ prev_post = NoPost /\ delays = 0

SendStart == pc = "loop" /\ SendLocals

\* ---- Spec: send_message_lines(url, message_lines, message_delay_seconds)
Init ==
    /\ DiffIdle /\ FormatIdle /\ MainIdle
    /\ message_lines \in SeqsUpTo(LineUniverse, MaxLines)
    /\ message_delay_seconds \in Delays
    /\ SendStart

\* send_discord_webhook(discord_webhook_url, chunk_lines) is entered
CallWebhook(site) ==
    /\ pc' = "sending"
    /\ call_site' = site
    /\ lines' = chunk_lines
    /\ content' = StrJoin(chunk_lines)
    /\ attempt' = 0
    /\ resp' = NoResponse
    /\ posts' = 0 /\ n429' = 0 /\ ntransient' = 0 /\ nother' = 0
    /\ rate_sleeps' = 0 /\ backoff_sleeps' = 0
    /\ slept' = NoSleep
    /\ UNCHANGED <<delivered, prev_post, delays>>

\* one iteration of `for line in message_lines`, up to the call of
\* send_discord_webhook when the chunk is flushed
ProcessLine ==
    /\ pc = "loop"
    /\ i <= Len(message_lines)
    /\ LET line == Truncate(message_lines[i])
           line_length == StrLen(line)
           new_chunk_length == chunk_length + line_length
       IN IF Overflows(new_chunk_length)
          THEN IF chunk_lines # <<>>
               THEN /\ CallWebhook("split")
                    /\ UNCHANGED <<i, chunk_lines, chunk_length>>
               ELSE /\ chunk_lines' = NewChunk(line)
                    /\ chunk_length' = line_length
                    /\ i' = i + 1
                    /\ slept' = NoSleep
                    /\ UNCHANGED <<pc, call_vars, call_hist, delivered, prev_post, delays>>
          ELSE /\ chunk_lines' = Append(chunk_lines, line)
               /\ chunk_length' = new_chunk_length
               /\ i' = i + 1
               /\ slept' = NoSleep
               /\ UNCHANGED <<pc, call_vars, call_hist, delivered, prev_post, delays>>
    /\ UNCHANGED <<diff_vars, fmt_vars, main_vars, message_lines, message_delay_seconds>>

\* an error of the call taken for a return (the exception swallowed)
ReturnedOrRaisedFrom(site) == pc \in {"returned", "raised"} /\ call_site = site

\* the call made from `site` has returned; an exception it raises is not
\* caught, and ends send_message_lines too
ReturnedFrom(site) == pc = "returned" /\ call_site = site

\* the inter-message delay without the floor
InterMessageDelayNoFloor(d) == d

\* max(message_delay_seconds, 0.0), the argument of time.sleep after a split
InterMessageDelay(d) == Max(d, 0)

\* after the flush of a split: the inter-message delay, then the new chunk
AfterSplit ==
    /\ ReturnedFrom("split")
    /\ LET line == Truncate(message_lines[i])
       IN /\ slept' = [kind |-> "delay", secs |-> InterMessageDelay(message_delay_seconds)]
          /\ delays' = delays + 1
          /\ chunk_lines' = NewChunk(line)
          /\ chunk_length' = StrLen(line)
          /\ i' = i + 1
          /\ pc' = "loop"
    /\ UNCHANGED <<diff_vars, fmt_vars, main_vars, message_lines, message_delay_seconds, call_vars,
                   call_hist, delivered, prev_post>>

\* after the loop: `if chunk_lines:` the final send
FlushFinal ==
    /\ pc = "loop"
    /\ i > Len(message_lines)
    /\ IF chunk_lines # <<>>
       THEN CallWebhook("final")
       ELSE /\ pc' = "done"
            /\ slept' = NoSleep
            /\ UNCHANGED <<call_vars, call_hist, delivered, prev_post, delays>>
    /\ UNCHANGED <<diff_vars, fmt_vars, main_vars, message_lines, message_delay_seconds, i, chunk_lines,
                   chunk_length>>

\* the final send has returned: send_message_lines returns
Finish ==
    /\ ReturnedFrom("final")
    /\ pc' = "done"
    /\ slept' = NoSleep
    /\ UNCHANGED <<diff_vars, fmt_vars, main_vars, message_lines, message_delay_seconds, i, chunk_lines,
                   chunk_length, call_vars, call_hist, delivered, prev_post, delays>>

\* the answers after which the loop goes round whatever `attempt` is: a 429,
\* and a status that none of the tests takes and raise_for_status lets through
RetriesUncapped(status, att) ==
    \/ status = RateLimited
    \/ /\ ~IsSuccess(status)
       /\ ~RetriesTransient(status, att)
       /\ ~RaisesForStatus(status)

\* one iteration of `while True` in send_discord_webhook: the POST, the
\* response r, and the sleep or return or raise it leads to
Attempt ==
    /\ pc = "sending"
    /\ \E r \in Responses :
        /\ RetriesUncapped(r.status, attempt + 1) => n429 + nother < MaxUncapped
        /\ attempt' = attempt + 1
        /\ posts' = posts + 1
        /\ resp' = r
        /\ prev_post' = [lines |-> lines, content |-> content, status |-> r.status]
        /\ IF IsSuccess(r.status)
           THEN /\ pc' = "returned"
                /\ delivered' = Append(delivered, [lines |-> lines, content |-> content])
                /\ slept' = NoSleep
                /\ UNCHANGED <<n429, ntransient, nother, rate_sleeps, backoff_sleeps>>
           ELSE IF r.status = RateLimited
           THEN /\ slept' = [kind |-> "rate", secs |-> RateLimitSleep(r)]
                /\ n429' = n429 + 1
                /\ rate_sleeps' = rate_sleeps + 1
                /\ pc' = "sending"
                /\ UNCHANGED <<ntransient, nother, backoff_sleeps, delivered>>
           ELSE IF RetriesTransient(r.status, attempt')
           THEN /\ slept' = [kind |-> "backoff", secs |-> Backoff(attempt')]
                /\ ntransient' = ntransient + 1
                /\ backoff_sleeps' = backoff_sleeps + 1
                /\ pc' = "sending"
                /\ UNCHANGED <<n429, nother, rate_sleeps, delivered>>
           ELSE /\ pc' = IF RaisesForStatus(r.status) THEN "raised" ELSE "sending"
                /\ ntransient' = IF r.status \in Transient THEN ntransient + 1 ELSE ntransient
                /\ nother' = IF r.status \in Transient THEN nother ELSE nother + 1
                /\ slept' = NoSleep
                /\ UNCHANGED <<n429, rate_sleeps, backoff_sleeps, delivered>>
    /\ UNCHANGED <<diff_vars, fmt_vars, main_vars, loop_vars, call_site, lines, content, delays>>

Next == ProcessLine \/ AfterSplit \/ FlushFinal \/ Finish \/ Attempt

Spec == Init /\ [][Next]_vars

\* ---- SpecDiff: diff_entries(old_entries, new_entries)
SendIdle ==
    /\ message_lines = <<>> /\ message_delay_seconds = 0
    /\ SendStart

InitDiff ==
    /\ old_entries \in SeqsUpTo(Entries, MaxEntries)
    /\ new_entries \in SeqsUpTo(Entries, MaxEntries)
    /\ diff_pc = "call"
    /\ added = <<>> /\ modified = <<>> /\ removed = <<>>
    /\ SendIdle /\ FormatIdle /\ MainIdle

DiffEntries ==
    /\ diff_pc = "call"
    /\ LET d == diff_entries(old_entries, new_entries)
       IN /\ added' = d.added
          /\ modified' = d.modified
          /\ removed' = d.removed
    /\ diff_pc' = "returned"
    /\ UNCHANGED <<old_entries, new_entries, pc, loop_vars, call_vars, call_hist, run_hist,
                 fmt_vars, main_vars>>

NextDiff == DiffEntries

SpecDiff == InitDiff /\ [][NextDiff]_vars

\* ---- SpecFormat: changelog_entries_to_message_lines(entries)
\* the changes the input is drawn from: a change that is not a dict, messages
\* of 2000 and of 2001 characters, a message with blanks around it, a change
\* without a type, and a change of an unknown type with a blank message
NotADict == [isdict |-> FALSE, type |-> <<>>, message |-> <<>>]
Change(type, message) == [isdict |-> TRUE, type |-> type, message |-> message]
ChangeUniverse ==
    { NotADict,
      Change(TypeTweak, <<Run("a", DISCORD_SPLIT_LIMIT)>>),
      Change(TypeTweak, <<Run("a", DISCORD_SPLIT_LIMIT + 1)>>),
      Change(TypeFix, <<Run(" ", 1), Run("o", 1), Run("k", 1), Run(" ", 1)>>),
      Change(<<>>, <<Run("a", 1)>>),
      Change(Text(<<"Z">>), <<Run(" ", 1)>>) }

\* the `changes` values: not a list, the empty list, one change, two changes
NotAList == [islist |-> FALSE, items |-> <<>>]
ChangesUniverse ==
    {NotAList}
    \cup {[islist |-> TRUE, items |-> cs] : cs \in SeqsUpTo(ChangeUniverse, 1)}
    \cup {[islist |-> TRUE,
           items |-> <<Change(TypeAdd, <<Run("a", 1)>>), Change(TypeAdd, <<Run("b", 1)>>)>>]}

FormatAuthors == {<<>>, Text(<<"A">>), Text(<<"B">>)}
FormatEntries ==
    [isdict : {TRUE}, id : {None}, author : FormatAuthors, changes : ChangesUniverse]

InitFormat ==
    /\ fmt_entries \in SeqsUpTo(FormatEntries, MaxFormatEntries)
    /\ fmt_pc = "call" /\ fmt_lines = <<>>
    /\ DiffIdle /\ SendIdle /\ MainIdle

FormatEntriesToLines ==
    /\ fmt_pc = "call"
    /\ fmt_lines' = changelog_entries_to_message_lines(fmt_entries)
    /\ fmt_pc' = "returned"
    /\ UNCHANGED <<fmt_entries, diff_vars, pc, loop_vars, call_vars, call_hist, run_hist,
                   main_vars>>

NextFormat == FormatEntriesToLines

SpecFormat == InitFormat /\ [][NextFormat]_vars

\* ---- SpecMain: main()
\* the environment: complete, complete with a PR_NUMBER that is not a number,
\* or with one of the required variables missing; CHANGELOG_DIR, CHANGELOG_EXT
\* and DISCORD_MESSAGE_DELAY_SECONDS are not set and take their defaults
Repository == Text(<<"o", "/", "r">>)
FullEnv ==
    [webhook |-> TRUE, token |-> TRUE, repository |-> Repository,
     pr_number |-> Text(<<"0", "1", "2">>),
     delay |-> DEFAULT_DISCORD_MESSAGE_DELAY_SECONDS]
Envs ==
    { FullEnv,
      [FullEnv EXCEPT !.webhook = FALSE],
      [FullEnv EXCEPT !.token = FALSE],
      [FullEnv EXCEPT !.repository = <<>>],
      [FullEnv EXCEPT !.pr_number = <<>>],
      [FullEnv EXCEPT !.pr_number = Text(<<"x">>)] }

\* a GET raises in raise_for_status
HttpError(status) == status >= 400

\* the answers to GET /pulls/{pr_number}
PullRequest(status, merged, merged_at, title, html_url, base_sha, merge_commit_sha) ==
    [status |-> status, merged |-> merged, merged_at |-> merged_at, title |-> title,
     html_url |-> html_url, base_sha |-> base_sha, merge_commit_sha |-> merge_commit_sha]
PullUrl == Text(<<"u">>)
PullRequests ==
    { PullRequest(500, FALSE, FALSE, <<>>, <<>>, FALSE, FALSE),
      PullRequest(200, FALSE, FALSE, Text(<<"t">>), PullUrl, TRUE, TRUE),
      PullRequest(200, TRUE, TRUE, Text(<<"t">>), PullUrl, TRUE, FALSE),
      PullRequest(200, TRUE, TRUE, Text(<<"t">>), PullUrl, TRUE, TRUE),
      PullRequest(200, FALSE, TRUE, <<>>, <<>>, TRUE, TRUE) }

\* the answers to GET /pulls/{pr_number}/files: the status of the failing
\* page (0: none fails) and the filenames of the pages before the empty one,
\* <<>> for an item without filename
PathA == StrCat(DEFAULT_CHANGELOG_DIR, Text(<<"/", "a", ".", "y", "m", "l">>))
PathB == StrCat(DEFAULT_CHANGELOG_DIR, Text(<<"/", "b", ".", "y", "m", "l">>))
PathReadme == Text(<<"R", "E", "A", "D", "M", "E">>)
PathOther == StrCat(DEFAULT_CHANGELOG_DIR, Text(<<"/", "a", ".", "t", "x", "t">>))
FileListings ==
    { [failed |-> 500, pages |-> <<>>],
      [failed |-> 0, pages |-> <<>>],
      [failed |-> 0, pages |-> <<<<PathReadme, PathOther>>>>],
      [failed |-> 0, pages |-> <<<<PathReadme, PathA, <<>>>>>>],
      [failed |-> 0, pages |-> <<<<PathA>>, <<PathB>>>>] }

\* list_pr_files: the non-empty filenames of all pages
list_pr_files(pages) ==
    SelectSeq(ConcatAll(pages), LAMBDA filename : filename # <<>>)

is_changelog_file(path, changelog_dir, changelog_ext) ==
    LET prefix == StrCat(changelog_dir, Text(<<"/">>))
    IN StartsWith(path, prefix) /\ EndsWith(path, changelog_ext)

\* the entries of the changelog files: one entry, the same entry with another
\* message, and an entry without author whose message fills a message
MainEntry(id, author, type, message) ==
    [isdict |-> TRUE, id |-> id, author |-> author,
     changes |-> [islist |-> TRUE, items |-> <<Change(type, message)>>]]
NotAnEntry == [isdict |-> FALSE, id |-> None, author |-> <<>>, changes |-> NotAList]
Entry1 == MainEntry("1", Text(<<"A">>), TypeAdd, <<Run("a", 1)>>)
Entry1Modified == MainEntry("1", Text(<<"A">>), TypeAdd, <<Run("b", 1)>>)
Entry2Long == MainEntry("2", <<>>, TypeTweak, <<Run("a", DISCORD_SPLIT_LIMIT)>>)

\* what yaml.safe_load returns: None, something that is not a mapping, or a
\* mapping with its Entries value (a list or not)
NullData == [isnull |-> TRUE, isdict |-> FALSE, Entries |-> NotAList]
ScalarData == [isnull |-> FALSE, isdict |-> FALSE, Entries |-> NotAList]
Mapping(entries) == [isnull |-> FALSE, isdict |-> TRUE, Entries |-> entries]
EmptyMapping == Mapping(NotAList)
EntriesData(items) == Mapping([islist |-> TRUE, items |-> items])

\* the answers to GET /contents/{path}?ref={sha}: the status, whether the
\* text is YAML, and what it loads to
FileResponse(status, valid, data) == [status |-> status, valid |-> valid, data |-> data]
FileResponses ==
    { FileResponse(404, FALSE, NullData),
      FileResponse(500, FALSE, NullData),
      FileResponse(200, FALSE, NullData),
      FileResponse(200, TRUE, NullData),
      FileResponse(200, TRUE, ScalarData),
      FileResponse(200, TRUE, EntriesData(<<Entry1>>)),
      FileResponse(200, TRUE, EntriesData(<<Entry1Modified, NotAnEntry, Entry2Long>>)) }

\* get_repo_file_text returns None
TextIsNone(response) == response.status = 404

\* get_repo_file_text raises
FetchError(response) == ~TextIsNone(response) /\ HttpError(response.status)

\* parse_yaml(text) raises
YamlError(response) == ~TextIsNone(response) /\ ~response.valid

parse_yaml(response) ==
    IF TextIsNone(response) THEN EmptyMapping
    ELSE IF response.data.isnull THEN EmptyMapping
    ELSE response.data

extract_entries(data) ==
    IF data.isdict /\ data.Entries.islist
    THEN SelectSeq(data.Entries.items, LAMBDA e : e.isdict)
    ELSE <<>>

\* the ChangelogFileDelta of one file
FileDelta(path, old_response, new_response) ==
    LET d == diff_entries(extract_entries(parse_yaml(old_response)),
                          extract_entries(parse_yaml(new_response)))
    IN [path |-> path, added |-> d.added, modified |-> d.modified, removed |-> d.removed]

\* `if added or modified or removed`
DeltaIsEmpty(delta) == delta.added = <<>> /\ delta.modified = <<>> /\ delta.removed = <<>>

\* `if not deltas`
NoDeltasNever(ds) == FALSE
NoDeltas(ds) == ds = <<>>

MainFrame == UNCHANGED <<diff_vars, fmt_vars, env>>
SendFrame ==
    UNCHANGED <<message_lines, pc, i, chunk_lines, chunk_length, call_vars, call_hist,
                run_hist>>

InitMain ==
    /\ env \in Envs
    /\ main_pc = "start"
    /\ pr_number = 0 /\ pr_title = <<>> /\ pr_url = <<>>
    /\ changelog_files = <<>> /\ deltas = <<>> /\ file_hist = <<>>
    /\ message_lines = <<>> /\ message_delay_seconds = 0
    /\ pc = "idle" /\ SendLocals
    /\ DiffIdle /\ FormatIdle

\* main, lines 58-84: the environment is read
MainConfig ==
    /\ main_pc = "start"
    /\ IF ~env.webhook
       THEN /\ main_pc' = "skipped"
            /\ UNCHANGED <<pr_number, message_delay_seconds>>
       ELSE IF ~env.token \/ env.repository = <<>> \/ env.pr_number = <<>>
                 \/ ~IsDigits(env.pr_number)
       THEN /\ main_pc' = "raised"
            /\ UNCHANGED <<pr_number, message_delay_seconds>>
       ELSE /\ pr_number' = ParseInt(env.pr_number)
            /\ message_delay_seconds' = env.delay
            /\ main_pc' = "pr"
    /\ UNCHANGED <<pr_title, pr_url, changelog_files, deltas, file_hist>>
    /\ MainFrame /\ SendFrame

\* main, lines 86-101: the pull request is fetched
MainFetchPr ==
    /\ main_pc = "pr"
    /\ \E pr \in PullRequests :
          IF HttpError(pr.status)
          THEN main_pc' = "raised" /\ UNCHANGED <<pr_title, pr_url>>
          ELSE IF ~pr.merged /\ ~pr.merged_at
          THEN main_pc' = "skipped" /\ UNCHANGED <<pr_title, pr_url>>
          ELSE /\ pr_title' = pr.title
               /\ pr_url' = IF pr.html_url # <<>> THEN pr.html_url
                            ELSE StrJoin(<<GithubUrl, env.repository, PullPath,
                                           IntToStr(pr_number)>>)
               /\ main_pc' = IF ~pr.base_sha \/ ~pr.merge_commit_sha
                             THEN "skipped" ELSE "list"
    /\ UNCHANGED <<pr_number, message_delay_seconds, changelog_files, deltas, file_hist>>
    /\ MainFrame /\ SendFrame

\* main, lines 103-112: the changed files are listed and filtered
MainListFiles ==
    /\ main_pc = "list"
    /\ \E listing \in FileListings :
          IF HttpError(listing.failed)
          THEN main_pc' = "raised" /\ UNCHANGED changelog_files
          ELSE /\ changelog_files' =
                    SelectSeq(list_pr_files(listing.pages),
                              LAMBDA f : is_changelog_file(f,
                                  StrRStripChar(DEFAULT_CHANGELOG_DIR, "/"),
                                  DEFAULT_CHANGELOG_EXT))
               /\ main_pc' = IF changelog_files' = <<>> THEN "skipped" ELSE "files"
    /\ UNCHANGED <<pr_number, message_delay_seconds, pr_title, pr_url, deltas, file_hist>>
    /\ MainFrame /\ SendFrame

\* main, lines 115-128: one round of `for path in changelog_files`
MainProcessFile ==
    /\ main_pc = "files"
    /\ Len(file_hist) < Len(changelog_files)
    /\ LET path == changelog_files[Len(file_hist) + 1]
       IN \E old_response, new_response \in FileResponses :
             LET delta == FileDelta(path, old_response, new_response)
                 hist(old_ok, new_ok, d) ==
                     Append(file_hist, [path |-> path, old_ok |-> old_ok,
                                        new_ok |-> new_ok, nonempty |-> d])
             IN IF FetchError(old_response)
                THEN /\ main_pc' = "raised"
                     /\ file_hist' = hist(FALSE, FALSE, FALSE)
                     /\ UNCHANGED deltas
                ELSE IF FetchError(new_response)
                THEN /\ main_pc' = "raised"
                     /\ file_hist' = hist(TRUE, FALSE, FALSE)
                     /\ UNCHANGED deltas
                ELSE IF YamlError(old_response) \/ YamlError(new_response)
                THEN /\ main_pc' = "raised"
                     /\ file_hist' = hist(~YamlError(old_response), FALSE, FALSE)
                     /\ UNCHANGED deltas
                ELSE /\ main_pc' = "files"
                     /\ file_hist' = hist(TRUE, TRUE, ~DeltaIsEmpty(delta))
                     /\ deltas' = IF DeltaIsEmpty(delta) THEN deltas
                                  ELSE Append(deltas, delta)
    /\ UNCHANGED <<pr_number, message_delay_seconds, pr_title, pr_url, changelog_files>>
    /\ MainFrame /\ SendFrame

\* main, lines 130-137: after the loop, nothing is sent without deltas;
\* otherwise the lines are built and send_message_lines is entered
MainDeliver ==
    /\ main_pc = "files"
    /\ Len(file_hist) = Len(changelog_files)
    /\ IF NoDeltas(deltas)
       THEN main_pc' = "skipped" /\ UNCHANGED <<message_lines, pc>>
       ELSE /\ message_lines' = build_message_lines(pr_number, pr_title, pr_url, deltas)
            /\ pc' = "loop"
            /\ main_pc' = "sending"
    /\ UNCHANGED <<pr_number, message_delay_seconds, pr_title, pr_url, changelog_files,
                   deltas, file_hist>>
    /\ MainFrame
    /\ UNCHANGED <<i, chunk_lines, chunk_length, call_vars, call_hist, run_hist>>

NextMain ==
    \/ MainConfig \/ MainFetchPr \/ MainListFiles \/ MainProcessFile \/ MainDeliver
    \/ ProcessLine \/ AfterSplit \/ FlushFinal \/ Finish \/ Attempt

SpecMain == InitMain /\ [][NextMain]_vars

\* ===================================================================== claims
\* helpers of the claims
RECURSIVE Flatten(_)
Flatten(chunks) ==
    IF chunks = <<>> THEN <<>> ELSE Head(chunks).lines \o Flatten(Tail(chunks))

ContentsOf(chunks) == [k \in DOMAIN chunks |-> chunks[k].content]

\* a line as the delivery is to carry it: its first 1900 characters, right
\* stripped, plus " [...]", when it is longer than 2000 characters
AsDelivered(line) ==
    IF StrLen(line) > 2000
    THEN StrCat(StrRStrip(StrTake(line, 1900)), Ellipsis)
    ELSE line

AllAsDelivered(ls) == [k \in DOMAIN ls |-> AsDelivered(ls[k])]

IsPrefix(p, q) == Len(p) <= Len(q) /\ SubSeq(q, 1, Len(p)) = p

\* how often id x occurs in a list of entries
Occurrences(entries, x) == Cardinality({k \in DOMAIN entries : entries[k].id = x})

IdsIn(entries) == {entries[k].id : k \in DOMAIN entries}

\* every entry has an id and no id occurs twice
IdUnique(entries) ==
    \A k \in DOMAIN entries :
        entries[k].id # None /\ Occurrences(entries, entries[k].id) = 1

EntryOf(entries, x) == entries[CHOOSE k \in DOMAIN entries : entries[k].id = x]

\* C1: every content handed to send_discord_webhook as one delivery is at most
\* 2000 characters long, whatever the lengths of the input lines.
C1_ContentWithinLimit ==
    call_site # "none" => StrLen(content) <= 2000

\* a line longer than 2000 characters has been POSTed, truncated
C1_Witness ==
    /\ posts > 0
    /\ \E k \in DOMAIN message_lines :
          /\ StrLen(message_lines[k]) > 2000
          /\ \E j \in DOMAIN lines : lines[j] = AsDelivered(message_lines[k])

\* C2: no id occurs in more than one of added, modified, removed, duplicate
\* ids and id-less entries allowed.
C2_OutputsDisjoint ==
    diff_pc = "returned" =>
        /\ IdsIn(added) \cap IdsIn(modified) = {}
        /\ IdsIn(added) \cap IdsIn(removed) = {}
        /\ IdsIn(modified) \cap IdsIn(removed) = {}

\* a diff with a modified and an added entry, a duplicate id and an id-less entry
C2_Witness ==
    /\ diff_pc = "returned"
    /\ modified # <<>>
    /\ added # <<>>
    /\ \E k \in DOMAIN new_entries : Occurrences(new_entries, new_entries[k].id) = 2
    /\ \E k \in DOMAIN old_entries : old_entries[k].id = None

\* C3: for lists in which every entry has an id and no id repeats, added is
\* exactly new minus old, removed exactly old minus new, modified exactly the
\* ids in both whose entries differ; an id in both with equal entries is in none.
C3_ExactClassification ==
    (diff_pc = "returned" /\ IdUnique(old_entries) /\ IdUnique(new_entries)) =>
        LET old_ids == IdsIn(old_entries)
            new_ids == IdsIn(new_entries)
        IN /\ IdsIn(added) = new_ids \ old_ids
           /\ IdsIn(removed) = old_ids \ new_ids
           /\ IdsIn(modified) =
                 {x \in old_ids \cap new_ids :
                     EntryOf(old_entries, x) # EntryOf(new_entries, x)}
           /\ \A x \in old_ids \cap new_ids :
                 EntryOf(old_entries, x) = EntryOf(new_entries, x) =>
                     x \notin IdsIn(added) \cup IdsIn(modified) \cup IdsIn(removed)

\* id-unique lists with one id changed and one id unchanged in both
C3_Witness ==
    /\ diff_pc = "returned"
    /\ IdUnique(old_entries) /\ IdUnique(new_entries)
    /\ modified # <<>>
    /\ \E x \in IdsIn(old_entries) \cap IdsIn(new_entries) :
          EntryOf(old_entries, x) = EntryOf(new_entries, x)

\* C4: an entry is in modified only if its id occurs exactly once in old and
\* exactly once in new and the two entries differ; an id that occurs twice or
\* more in either list is never in modified.
C4_AmbiguitySkip ==
    diff_pc = "returned" =>
        /\ \A k \in DOMAIN modified :
              LET x == modified[k].id
              IN /\ x # None
                 /\ Occurrences(old_entries, x) = 1
                 /\ Occurrences(new_entries, x) = 1
                 /\ EntryOf(old_entries, x) # EntryOf(new_entries, x)
                 /\ modified[k] = EntryOf(new_entries, x)
        /\ \A x \in Ids :
              (Occurrences(old_entries, x) >= 2 \/ Occurrences(new_entries, x) >= 2)
                  => x \notin IdsIn(modified)

\* an id twice in old and once in new with a content none of the old ones has
C4_Witness ==
    /\ diff_pc = "returned"
    /\ \E x \in Ids :
          /\ Occurrences(old_entries, x) = 2
          /\ Occurrences(new_entries, x) = 1
          /\ \A k \in DOMAIN old_entries :
                old_entries[k].id = x => old_entries[k] # EntryOf(new_entries, x)
          /\ x \notin IdsIn(modified)

\* C5: an answer that is not 200/204, not 429 and not 500/502/503/504 makes
\* send_discord_webhook raise at once, with no further POST for the chunk.
C5_OtherStatusRaises ==
    (posts > 0 /\ resp.status \notin Success \cup {429} \cup Transient)
        => pc = "raised"

\* C6: when every answer to the sends of a chunk is transient there are exactly
\* 6 POSTs: a backoff sleep and a retry after each of the first five, and the
\* sixth raises.
C6_RetryCap ==
    (posts > 0 /\ ntransient = posts) =>
        /\ posts <= 6
        /\ posts < 6 => (pc = "sending" /\ backoff_sleeps = posts
                         /\ slept.kind = "backoff")
        /\ posts = 6 => (pc = "raised" /\ backoff_sleeps = 5)

\* the sixth transient answer in a row has raised
C6_Witness ==
    posts = 6 /\ ntransient = 6 /\ pc = "raised" /\ resp.status = 503

\* C7: every 429 is followed by one sleep of the response's retry-after
\* duration, floored at 0, and by another POST of the same content, whatever
\* the number of attempts so far; a 200 or 204 then ends the delivery.
C7_Duration(r) ==
    IF r.body # <<>> THEN r.body[1]
    ELSE IF r.header # <<>> THEN r.header[1]
    ELSE 1

C7_RateLimitRetry ==
    [][/\ (posts' = posts + 1 /\ resp'.status = 429) =>
              /\ slept' = [kind |-> "rate",
                           secs |-> IF C7_Duration(resp') < 0 THEN 0
                                    ELSE C7_Duration(resp')]
              /\ rate_sleeps' = rate_sleeps + 1
              /\ pc' = "sending"
              /\ content' = content
       /\ (posts' = posts + 1 /\ posts > 0 /\ resp.status = 429) =>
              prev_post'.content = prev_post.content
       /\ (posts' = posts + 1 /\ resp'.status \in {200, 204}) =>
              /\ pc' = "returned"
              /\ delivered' = Append(delivered, [lines |-> lines, content |-> content])
       /\ rate_sleeps' = n429'
      ]_vars

\* a delivery that succeeded after two 429 answers and more than 6 POSTs
C7_Witness ==
    pc = "returned" /\ n429 >= 2 /\ rate_sleeps >= 2 /\ posts > 6

\* C8: chunks are POSTed in the order of their lines, one at a time: the first
\* POST of a chunk follows a 200 or 204 for the chunk before it, and a retry
\* repeats the chunk of the POST before it.
C8_DeliveryOrder ==
    [][posts' = posts + 1 =>
          /\ IsPrefix(Flatten(delivered) \o prev_post'.lines,
                      AllAsDelivered(message_lines))
          /\ prev_post'.lines # <<>>
          /\ (posts' = 1 /\ prev_post # NoPost) =>
                /\ prev_post.status \in {200, 204}
                /\ delivered # <<>>
                /\ delivered[Len(delivered)].lines = prev_post.lines
          /\ posts' > 1 =>
                /\ prev_post.status \notin {200, 204}
                /\ prev_post'.lines = prev_post.lines
      ]_vars

\* the second chunk is being retried after the first was delivered
C8_Witness ==
    Len(delivered) = 1 /\ posts >= 2 /\ pc = "sending"

\* C9: once a delivery has ended in an error nothing more is POSTed, the error
\* is not caught, and the chunks delivered before it stay delivered.
C9_FatalAborts ==
    [][/\ pc = "raised" =>
             /\ pc' = "raised"
             /\ posts' = posts
             /\ prev_post' = prev_post
             /\ delivered' = delivered
       /\ pc' = "raised" =>
             /\ IsPrefix(Flatten(delivered') \o lines',
                         AllAsDelivered(message_lines'))
             /\ prev_post'.lines = lines'
             /\ prev_post'.status \notin {200, 204, 429}
      ]_vars

\* an error after one chunk was delivered, with lines still to send
C9_Witness ==
    pc = "raised" /\ Len(delivered) >= 1 /\ i <= Len(message_lines)

\* C10: when every delivery succeeded, the chunks sent, concatenated in the
\* order sent, are the input lines in input order, each line longer than 2000
\* characters truncated; no line is dropped, repeated, moved or split.
C10_Reconstruction ==
    pc = "done" =>
        /\ Flatten(delivered) = AllAsDelivered(message_lines)
        /\ StrJoin(ContentsOf(delivered)) = StrJoin(AllAsDelivered(message_lines))
        /\ \A k \in DOMAIN delivered :
              delivered[k].content = StrJoin(delivered[k].lines)

\* three lines, one of them truncated, delivered in more than one chunk
C10_Witness ==
    /\ pc = "done"
    /\ Len(delivered) >= 2
    /\ Len(message_lines) = 3
    /\ \E k \in DOMAIN message_lines : StrLen(message_lines[k]) > 2000

\* the fewest consecutive groups of whole lines, each of at most 2000
\* characters, that ls can be cut into (cuts: the indices a group ends at)
GroupsFit(ls, cuts) ==
    LET n == Len(ls)
        ends == cuts \cup {n}
        last(a) == CHOOSE b \in ends : b >= a /\ \A c \in ends : c >= a => b <= c
    IN \A a \in {1} \cup {c + 1 : c \in cuts} :
          StrLen(StrJoin(SubSeq(ls, a, last(a)))) <= 2000

MinChunks(ls) ==
    IF ls = <<>> THEN 0
    ELSE LET fits == {cuts \in SUBSET (1 .. Len(ls) - 1) : GroupsFit(ls, cuts)}
         IN CHOOSE m \in 1 .. Len(ls) :
               /\ \E cuts \in fits : Cardinality(cuts) + 1 = m
               /\ \A cuts \in fits : Cardinality(cuts) + 1 >= m

\* C11: the number of chunks sent is the least number of consecutive groups of
\* whole (truncated) lines with no group longer than 2000 characters.
C11_MinimumChunks ==
    pc = "done" => Len(delivered) = MinChunks(AllAsDelivered(message_lines))

\* three lines in two chunks, one chunk of exactly 2000 characters in two lines
C11_Witness ==
    /\ pc = "done"
    /\ Len(message_lines) = 3
    /\ Len(delivered) = 2
    /\ \E k \in DOMAIN delivered :
          Len(delivered[k].lines) = 2 /\ StrLen(delivered[k].content) = 2000

\* p is q with some of its elements left out
RECURSIVE IsSubsequence(_, _)
IsSubsequence(p, q) ==
    IF p = <<>> THEN TRUE
    ELSE IF q = <<>> THEN FALSE
    ELSE IF Head(p) = Head(q) THEN IsSubsequence(Tail(p), Tail(q))
    ELSE IsSubsequence(p, Tail(q))

\* the entries of `entries`, in order, whose id is an id and occurs nowhere in `others`
WithIdAbsentFrom(entries, others) ==
    SelectSeq(entries, LAMBDA e :
        e.id # None /\ \A k \in DOMAIN others : others[k].id # e.id)

\* C12: added is the subsequence of new_entries whose id is absent from old,
\* removed the subsequence of old_entries whose id is absent from new, each
\* occurrence listed once; modified is a subsequence of new_entries.
C12_OrderAndMultiplicity ==
    diff_pc = "returned" =>
        /\ added = WithIdAbsentFrom(new_entries, old_entries)
        /\ removed = WithIdAbsentFrom(old_entries, new_entries)
        /\ IsSubsequence(modified, new_entries)

\* old = [{id:1,a},{id:1,b}], new = []: both occurrences removed, in old order
C12_Witness ==
    /\ diff_pc = "returned"
    /\ old_entries = <<[id |-> "1", author |-> "A"], [id |-> "1", author |-> "B"]>>
    /\ new_entries = <<>>
    /\ removed = old_entries
    /\ added = <<>> /\ modified = <<>>

\* C13: diff_entries(L, L) returns three empty lists, for every list L.
C13_Idempotence ==
    (diff_pc = "returned" /\ old_entries = new_entries) =>
        added = <<>> /\ modified = <<>> /\ removed = <<>>

\* a list with a duplicate id and an id-less entry diffed against itself
C13_Witness ==
    /\ diff_pc = "returned"
    /\ old_entries = new_entries
    /\ Len(old_entries) = 3
    /\ \E x \in Ids : Occurrences(old_entries, x) = 2
    /\ \E k \in DOMAIN old_entries : old_entries[k].id = None
    /\ added = <<>> /\ modified = <<>> /\ removed = <<>>

\* a list without its id-less entries
WithId(entries) == SelectSeq(entries, LAMBDA e : e.id # None)

\* C14: an entry without an id is in none of the three outputs, and the outputs
\* are those of the lists without their id-less entries; two empty lists give
\* three empty outputs.
C14_IdlessIgnored ==
    diff_pc = "returned" =>
        /\ \A k \in DOMAIN added : added[k].id # None
        /\ \A k \in DOMAIN modified : modified[k].id # None
        /\ \A k \in DOMAIN removed : removed[k].id # None
        /\ added = Added(WithId(old_entries), WithId(new_entries))
        /\ modified = Modified(WithId(old_entries), WithId(new_entries))
        /\ removed = Removed(WithId(old_entries), WithId(new_entries))
        /\ (old_entries = <<>> /\ new_entries = <<>>) =>
              added = <<>> /\ modified = <<>> /\ removed = <<>>

\* id-less entries in both lists beside an added and a modified entry
C14_Witness ==
    /\ diff_pc = "returned"
    /\ \E k \in DOMAIN old_entries : old_entries[k].id = None
    /\ \E k \in DOMAIN new_entries : new_entries[k].id = None
    /\ added # <<>>
    /\ modified # <<>>

\* C16: a transient answer is retried with backoff as long as it is at most
\* the fifth transient answer for the chunk, whatever the number of 429s.
C16_RateLimitsDoNotConsumeCap ==
    (posts > 0 /\ resp.status \in Transient /\ ntransient < 6)
        => pc = "sending" /\ slept.kind = "backoff"

\* C17: with finitely many 429s the loop ends.  `attempt` grows with every
\* POST and is only ever tested by `attempt < 6`, so an answer that keeps the
\* loop going at the sixth POST keeps it going at every later one: the loop
\* ends for every sequence with finitely many 429s exactly when, from the sixth
\* POST on, every answer that is no 429 ends the call.
C17_EndsWithoutRateLimit ==
    (posts >= 6 /\ resp.status # 429) => pc \in {"returned", "raised"}

\* C19: the inter-message delay, floored at 0, is taken once after every
\* delivered chunk but the last: none before the first chunk, none after the
\* final one, n - 1 for n chunks, and neither delivery nor delay for no lines.
C19_InterMessageDelays ==
    /\ slept.kind = "delay" =>
          /\ slept.secs = (IF message_delay_seconds < 0 THEN 0 ELSE message_delay_seconds)
          /\ delays = Len(delivered)
    /\ delivered = <<>> => delays = 0
    /\ delays <= Len(delivered)
    /\ pc \in {"sending", "returned", "raised"} => delays = Len(delivered) - (IF pc = "returned" THEN 1 ELSE 0)
    /\ pc = "done" => delays = (IF delivered = <<>> THEN 0 ELSE Len(delivered) - 1)
    /\ (pc = "done" /\ message_lines = <<>>) => (delivered = <<>> /\ prev_post = NoPost)

\* three chunks delivered with a negative delay configured
C19_Witness ==
    pc = "done" /\ Len(delivered) = 3 /\ delays = 2 /\ message_delay_seconds < 0

\* C20: the k-th POST in a row answered by a transient status, k = 1..5, is
\* followed by a sleep of min(2^k, 30) seconds: 2, 4, 8, 16, 30.
C20_BackoffDurations ==
    /\ (posts \in 1 .. 5 /\ ntransient = posts /\ resp.status \in Transient) =>
          slept = [kind |-> "backoff", secs |-> <<2, 4, 8, 16, 30>>[posts]]
    /\ slept.kind = "backoff" => slept.secs <= 30

\* the fifth transient answer in a row, followed by a sleep of 30 seconds
C20_Witness ==
    posts = 5 /\ ntransient = 5 /\ pc = "sending" /\ slept.secs = 30


\* C18: every line changelog_entries_to_message_lines returns is at most
\* DISCORD_SPLIT_LIMIT characters long, whatever the length of the messages.
\* The code cuts the message of a change, and only a message longer than the
\* limit; the bullet, emoji, label and newline are added to it afterwards.
C18_FormatterLinesWithinLimit ==
    fmt_pc = "returned"
        => \A k \in DOMAIN fmt_lines : StrLen(fmt_lines[k]) <= DISCORD_SPLIT_LIMIT

\* C15: in main a webhook POST is made only after both revisions of every
\* changelog file of the pull request were fetched and diffed without error
\* and at least one file had a non-empty delta; so a fetch error on a file, or
\* empty deltas for all files, leaves the run without any POST.
SomePost == prev_post # NoPost \/ posts > 0 \/ delivered # <<>>
C15_PostOnlyAfterAllDiffed ==
    SomePost =>
        /\ changelog_files # <<>>
        /\ Len(file_hist) = Len(changelog_files)
        /\ \A k \in DOMAIN file_hist :
              /\ file_hist[k].path = changelog_files[k]
              /\ file_hist[k].old_ok /\ file_hist[k].new_ok
        /\ \E k \in DOMAIN file_hist : file_hist[k].nonempty

\* main has delivered two messages for a pull request with two changelog
\* files, one of them with an empty delta
C15_Witness ==
    /\ main_pc = "sending" /\ pc = "done"
    /\ Len(delivered) >= 2
    /\ Len(file_hist) = 2
    /\ \E k \in DOMAIN file_hist : ~file_hist[k].nonempty

====
